---- MODULE Spec2Model ----
(***************************************************************************)
(* Model of pkg/distlock: the Locker adapters (GORM, Redis, Memcached,     *)
(* etcd, Consul, Zookeeper, MongoDB), their renewal goroutines and the     *)
(* backend entry they contend for.                                         *)
(*                                                                         *)
(* One Locker instance exists per owner identifier; all instances are      *)
(* configured with the same lock name and the same timeout and talk to one *)
(* backend.  A behaviour fixes the adapter kind in its first state.        *)
(*                                                                         *)
(* Every exported method takes the instance mutex first (l.mu.Lock()) and  *)
(* releases it on return (defer l.mu.Unlock()).  A method called by the    *)
(* instance's owner is one step, taken when the mutex is free, from        *)
(* l.mu.Lock() to the return; RedisLocker.Lock, which reads the backend    *)
(* twice, is two.  The renewal goroutine (renewLock) is modelled step by   *)
(* step: evaluating the select operands, receiving a tick, entering Renew  *)
(* (taking the mutex), Renew's body.                                       *)
(*                                                                         *)
(* Time is counted in whole seconds and kept relative to the present: an   *)
(* expiry time is stored as the seconds left until it (ExpiredAt minus     *)
(* time.Now()), and a second passing lowers every such value by one.       *)
(***************************************************************************)
EXTENDS Integers, Sequences, FiniteSets, TLC

(***************************************************************************)
(* Bounds of the model.                                                    *)
(***************************************************************************)
\* lockTimeout given to every instance (WithLockTimeout), in seconds.
LockTimeout == 2
\* Lock calls that reach "go l.renewLock(ctx)", over all instances.
MaxLocks == 2

\* Options handed to one ApplyOptions call.
MaxOpts == 3
\* time.Now() when the program starts, in hours, and the hours that pass.
StartClock == 2
MaxClock == 2

Owners == {"A", "B"}
Adapters == {"gorm", "redis", "memcached", "etcd", "consul", "zookeeper", "mongo"}

\* l.renewTicker == nil
NoTicker == 0

\* time.Second: a time.Duration is counted in tenths of a second.
Second == 10

\* int64(d.Seconds()), int32(d.Seconds()): the conversion drops the fraction.
WholeSeconds(d) == d \div Second

VARIABLES
    adapter,      \* which Locker implementation the instances are
    store,        \* backend entries under the lock name: rows / keys / nodes
    grants,       \* etcd leases and consul sessions: id -> seconds left, 0 when gone
    ownerID,      \* l.ownerID of each instance
    leaseID,      \* l.leaseID (EtcdLocker)
    mu,           \* l.mu is locked
    pc,           \* the caller's position: "idle", or "LockGet" inside RedisLocker.Lock
    renewTicker,  \* l.renewTicker: NoTicker or the ticker's number
    stopped,      \* tickers on which Stop() was called
    tasks,        \* renewLock goroutines: <<[pc, tk]>>
    crashed,      \* the instance's process has died
    ev,           \* what the last step returned (or logged)
    opts,         \* the options handed to ApplyOptions
    o,            \* what ApplyOptions returned: <<>> before the call, <<*Options>> after
    config,       \* package token: var config
    once,         \* package token: var once has run its function
    clock,        \* time.Now() as seen by package token, in hours
    tokenString,  \* the token string Sign returned last
    ret,          \* what the last call into package token returned
    lock,         \* GORMLocker.Lock's "var lock Lock": the row tx.First read
    whr,          \* package where: the *Options under construction
    lockTimeout,  \* l.lockTimeout as a time.Duration
    ttl           \* the TTL and Expiration computed from it

\* The variables of package distlock's lockers.
lockers == <<adapter, store, grants, ownerID, leaseID, mu, pc, renewTicker,
             stopped, tasks, crashed, ev>>

\* The variables no locker method touches, or (lock) only the statements of
\* GORMLocker.Lock's transaction taken one by one.
elsewhere ==
    <<opts, o, config, once, clock, tokenString, ret, lock, whr, lockTimeout, ttl>>

vars == <<lockers, elsewhere>>

NoEvent == [who |-> "", op |-> "", err |-> "", holder |-> "", path |-> ""]

Event(i, op, err, holder, path) ==
    [who |-> i, op |-> op, err |-> err, holder |-> holder, path |-> path]

\* The one entry under the lock name (rows are unique by name, a key has one value).
TheEntry == CHOOSE e \in store : TRUE


(***************************************************************************)
(* The outcome of a method body: the backend state it leaves (entries,     *)
(* leases/sessions), the instance fields it assigns (leaseID, ownerID), the *)
(* error it returns ("nil" for none), the holder an error message names,   *)
(* the branch taken, and whether "go l.renewLock(ctx)" was reached.        *)
(***************************************************************************)
Outcome(i, st, err, holder, path, spawn) ==
    [store |-> st, grants |-> grants, lease |-> leaseID[i], owner |-> ownerID[i],
     err |-> err, holder |-> holder, path |-> path, spawn |-> spawn]

(***************************************************************************)
(* GORMLocker (pkg/distlock/gorm.go).  A row is [owner, left], left being  *)
(* ExpiredAt minus the present time (negative once ExpiredAt has passed);  *)
(* Name is unique, so the table holds at most one row for the lock name.   *)
(***************************************************************************)
\* A variant of Before that also calls a row expired at the very instant of its expiry.
BeforeOrAt(left) == left <= 0

\* lock.ExpiredAt.Before(now), for a row with `left` seconds until ExpiredAt
Before(left) == left < 0

\* A variant of ExpiredAt that adds the renewal interval instead of the timeout.
ExpiredAtInterval == LockTimeout \div 2

\* now.Add(l.lockTimeout), as seconds from now
ExpiredAt == LockTimeout

\* The body of l.db.Transaction in Lock.  fault: "none", "db" (a statement
\* fails with something other than a duplicate entry) or "commit" (the body
\* returns nil and the commit fails: the writes are rolled back).
GORMLockTx(i, fault) ==
    LET mine == [owner |-> ownerID[i], left |-> ExpiredAt]
    IN  IF fault = "db"
        THEN Outcome(i, store, "db", "", "failed", FALSE)
        ELSE IF store = {}
        THEN \* tx.Create succeeds
             Outcome(i, IF fault = "commit" THEN store ELSE {mine},
                     IF fault = "commit" THEN "db" ELSE "nil",
                     "", "created", TRUE)
        ELSE \* duplicate entry: tx.First reads the row
             IF ~Before(TheEntry.left)
             THEN Outcome(i, store, "held", TheEntry.owner, "held", FALSE)
             ELSE \* tx.Save with the new owner and expiry
                  Outcome(i, IF fault = "commit" THEN store ELSE {mine},
                          IF fault = "commit" THEN "db" ELSE "nil",
                          "", "stolen", TRUE)

\* A variant of GORMDelete that reports success and leaves the row to expire.
GORMDeleteKeep(i, fault) == Outcome(i, store, "nil", "", "deleted", FALSE)

\* l.db.Delete(&Lock{}, "name = ?", l.lockName)
GORMDelete(i, fault) ==
    IF fault = "none"
    THEN Outcome(i, {}, "nil", "", "deleted", FALSE)
    ELSE Outcome(i, store, "db", "", "failed", FALSE)

\* A variant of GORMUpdate that reports success and leaves expired_at as it was.
GORMUpdateKeep(i, fault) == Outcome(i, store, "nil", "", "renewed", FALSE)

\* l.db.Model(&Lock{}).Where("name = ?", l.lockName).Update("expired_at", expiredAt)
GORMUpdate(i, fault) ==
    IF fault = "none"
    THEN Outcome(i, {[e EXCEPT !.left = ExpiredAt] : e \in store},
                 "nil", "", "renewed", FALSE)
    ELSE Outcome(i, store, "db", "", "failed", FALSE)

(***************************************************************************)
(* RedisLocker.  The key holds [owner, left], left being its time to live; *)
(* the server drops it when that runs out (see Advance).                   *)
(***************************************************************************)
\* A variant of RedisSetNX that sets the key whether or not it exists (Set for SetNX).
RedisSetAlways == TRUE

\* l.client.SetNX(ctx, l.lockName, l.ownerID, l.lockTimeout): TRUE when the key was set
RedisSetNX == store = {}

\* Lock up to the result of SetNX; path "exists" goes on to the Get.
RedisLockSetNX(i, fault) ==
    IF fault # "none"
    THEN Outcome(i, store, "db", "", "failed", FALSE)
    ELSE IF RedisSetNX
    THEN Outcome(i, {[owner |-> ownerID[i], left |-> LockTimeout]},
                 "nil", "", "created", TRUE)
    ELSE Outcome(i, store, "", "", "exists", FALSE)

\* A variant of RedisLockGet that reports every existing key as a conflict.
RedisLockGetStrict(i, fault) ==
    IF fault # "none" \/ store = {}
    THEN Outcome(i, store, "db", "", "failed", FALSE)
    ELSE Outcome(i, store, "held", TheEntry.owner, "held", FALSE)

\* Lock from l.client.Get on: the key may be gone by now (redis.Nil is an error).
RedisLockGet(i, fault) ==
    IF fault # "none" \/ store = {}
    THEN Outcome(i, store, "db", "", "failed", FALSE)
    ELSE IF TheEntry.owner # ownerID[i]
    THEN Outcome(i, store, "held", TheEntry.owner, "held", FALSE)
    ELSE Outcome(i, store, "nil", "", "reentrant", FALSE)

\* l.client.Del(ctx, l.lockName).Err()
RedisDel(i, fault) ==
    IF fault = "none"
    THEN Outcome(i, {}, "nil", "", "deleted", FALSE)
    ELSE Outcome(i, store, "db", "", "failed", FALSE)

\* l.client.Expire(ctx, l.lockName, l.lockTimeout).Err(): a missing key is no error
RedisExpire(i, fault) ==
    IF fault = "none"
    THEN Outcome(i, {[e EXCEPT !.left = ExpiredAt] : e \in store},
                 "nil", "", "renewed", FALSE)
    ELSE Outcome(i, store, "db", "", "failed", FALSE)

(***************************************************************************)
(* MemcachedLocker.  The item holds [owner, left]; its Expiration is the   *)
(* timeout in whole seconds.                                               *)
(***************************************************************************)
\* int32(l.lockTimeout.Seconds())
MemcachedExpiration == WholeSeconds(LockTimeout * Second)

\* l.client.Add(item): stored only if the key does not exist
MemcachedAdd(i, fault) ==
    IF fault # "none"
    THEN Outcome(i, store, "db", "", "failed", FALSE)
    ELSE IF store # {}
    THEN \* memcache.ErrNotStored
         Outcome(i, store, "held", "", "held", FALSE)
    ELSE Outcome(i, {[owner |-> ownerID[i], left |-> MemcachedExpiration]},
                 "nil", "", "created", TRUE)

\* A variant of MemcachedDelete that lets the item run out instead of deleting it.
MemcachedDeleteLazy(i, fault) == Outcome(i, store, "nil", "", "deleted", FALSE)

\* l.client.Delete(l.lockKey): a missing key is memcache.ErrCacheMiss
MemcachedDelete(i, fault) ==
    IF fault # "none" \/ store = {}
    THEN Outcome(i, store, "db", "", "failed", FALSE)
    ELSE Outcome(i, {}, "nil", "", "deleted", FALSE)

\* l.client.Replace(item): stores the caller's value if the key exists
MemcachedReplace(i, fault) ==
    IF fault # "none"
    THEN Outcome(i, store, "db", "", "failed", FALSE)
    ELSE IF store = {}
    THEN \* memcache.ErrNotStored
         Outcome(i, store, "notheld", "", "notheld", FALSE)
    ELSE Outcome(i, {[owner |-> ownerID[i], left |-> MemcachedExpiration]},
                 "nil", "", "renewed", FALSE)

(***************************************************************************)
(* EtcdLocker (pkg/distlock/etcd.go).  grants[id] is the time lease id has *)
(* left, or 0 once it is gone; the key holds [owner, lease].               *)
(***************************************************************************)
\* A clientv3.LeaseID that names no lease (the zero value of l.leaseID).
NoLease == 0

\* int64(l.lockTimeout.Seconds())
EtcdTTL == WholeSeconds(LockTimeout * Second)

LeaseAlive(id) == id \in DOMAIN grants /\ grants[id] # 0

\* l.lease.Grant, then l.cli.Put(ctx, l.lockKey, l.ownerID, clientv3.WithLease(id)).
\* fault: "none", "grant" (Grant fails) or "put" (Put fails after the lease was granted).
EtcdLock(i, fault) ==
    LET id == Len(grants) + 1
        granted == Append(grants, EtcdTTL)
    IN  IF fault = "grant"
        THEN Outcome(i, store, "db", "", "failed", FALSE)
        ELSE IF fault = "put"
        THEN [Outcome(i, store, "db", "", "failed", FALSE)
                 EXCEPT !.grants = granted, !.lease = id]
        ELSE [Outcome(i, {[owner |-> ownerID[i], lease |-> id]}, "nil", "", "created", TRUE)
                 EXCEPT !.grants = granted, !.lease = id]

\* l.cli.Delete(ctx, l.lockKey), then l.lease.Revoke(context.Background(), l.leaseID).
\* fault: "none", "delete" or "revoke"; revoking a lease that is gone is an error.
EtcdUnlock(i, fault) ==
    IF fault = "delete"
    THEN Outcome(i, store, "db", "", "failed", FALSE)
    ELSE IF fault = "revoke" \/ ~LeaseAlive(leaseID[i])
    THEN Outcome(i, {}, "db", "", "revokefailed", FALSE)
    ELSE [Outcome(i, {}, "nil", "", "deleted", FALSE)
             EXCEPT !.grants = [grants EXCEPT ![leaseID[i]] = 0]]

\* l.lease.KeepAliveOnce(ctx, l.leaseID)
EtcdKeepAliveOnce(i, fault) ==
    IF fault # "none"
    THEN Outcome(i, store, "db", "", "failed", FALSE)
    ELSE IF ~LeaseAlive(leaseID[i])
    THEN Outcome(i, store, "notheld", "", "notheld", FALSE)
    ELSE [Outcome(i, store, "nil", "", "renewed", FALSE)
             EXCEPT !.grants = [grants EXCEPT ![leaseID[i]] = EtcdTTL]]

(***************************************************************************)
(* ConsulLocker.  grants[id] is the time session id has left (0: gone).    *)
(* KV().Put sends the key and the value only: the pair's Session is used   *)
(* by KV().Acquire alone, so the stored key is bound to no session.        *)
(***************************************************************************)
\* l.client.Session().Create(session, nil), then l.client.KV().Put(kv, nil).
\* fault: "none", "session" (Create fails) or "put" (Put fails after the session exists).
ConsulLock(i, fault) ==
    LET created == Append(grants, LockTimeout)
    IN  IF fault = "session"
        THEN Outcome(i, store, "db", "", "failed", FALSE)
        ELSE IF fault = "put"
        THEN [Outcome(i, store, "db", "", "failed", FALSE) EXCEPT !.grants = created]
        ELSE [Outcome(i, {[owner |-> ownerID[i], session |-> NoLease]},
                      "nil", "", "created", TRUE)
                 EXCEPT !.grants = created]

\* l.client.KV().Delete(l.lockKey, nil)
ConsulDelete(i, fault) ==
    IF fault = "none"
    THEN Outcome(i, {}, "nil", "", "deleted", FALSE)
    ELSE Outcome(i, store, "db", "", "failed", FALSE)

\* l.client.Session().Renew(l.ownerID, nil): the id passed is the owner's
\* identifier, which names no session; the client reports "not found" as
\* (nil, nil), and nothing is renewed.
ConsulSessionRenew(i, fault) ==
    IF fault = "none"
    THEN Outcome(i, store, "nil", "", "renewed", FALSE)
    ELSE Outcome(i, store, "db", "", "failed", FALSE)

(***************************************************************************)
(* ZookeeperLocker (second half of pkg/distlock/gorm.go).  The node is     *)
(* lockPath/ownerID, created with flags 0; store holds one [owner] per     *)
(* child node of lockPath.                                                 *)
(***************************************************************************)
\* fmt.Sprintf("%s/%s", l.lockPath, l.ownerID): the child's name
LockNode(i) == [owner |-> ownerID[i]]

\* A path ending in "/" is rejected (l.ownerID is "" after Unlock).
ValidNode(i) == ownerID[i] # ""

\* l.conn.Create(lockNode, []byte{}, 0, zk.WorldACL(zk.PermAll))
ZookeeperCreate(i, fault) ==
    IF fault # "none" \/ ~ValidNode(i)
    THEN Outcome(i, store, "db", "", "failed", FALSE)
    ELSE IF LockNode(i) \in store
    THEN \* zk.ErrNodeExists
         Outcome(i, store, "held", "", "held", FALSE)
    ELSE Outcome(i, store \cup {LockNode(i)}, "nil", "", "created", TRUE)

\* l.conn.Delete(lockNode, -1), then l.ownerID = ""
ZookeeperDelete(i, fault) ==
    IF fault # "none" \/ ~ValidNode(i) \/ LockNode(i) \notin store
    THEN Outcome(i, store, "db", "", "failed", FALSE)
    ELSE [Outcome(i, store \ {LockNode(i)}, "nil", "", "deleted", FALSE)
             EXCEPT !.owner = ""]

\* Renew only logs.
ZookeeperRenew(i, fault) == Outcome(i, store, "nil", "", "renewed", FALSE)

(***************************************************************************)
(* MongoLocker.  A document is [owner, left], one per lock name, left      *)
(* being expiredAt minus the present time.                                 *)
(***************************************************************************)
\* l.lockCollection.UpdateOne(ctx, {name}, {$setOnInsert, $set}, upsert), then
\* the test of result.MatchedCount.  A server that refuses an update naming
\* the same path under both operators takes the fault branch on every call.
MongoLock(i, fault) ==
    LET mine == [owner |-> ownerID[i], left |-> ExpiredAt]
    IN  IF fault # "none"
        THEN Outcome(i, store, "db", "", "failed", FALSE)
        ELSE IF store = {}
        THEN \* inserted: MatchedCount = 0
             Outcome(i, {mine}, "held", "", "inserted", FALSE)
        ELSE \* matched: $set overwrites owner and expiry
             Outcome(i, {mine}, "nil", "", "overwritten", TRUE)

\* l.lockCollection.DeleteOne(ctx, {name}), then l.ownerID = ""
MongoDelete(i, fault) ==
    IF fault = "none"
    THEN [Outcome(i, {}, "nil", "", "deleted", FALSE) EXCEPT !.owner = ""]
    ELSE Outcome(i, store, "db", "", "failed", FALSE)

\* l.lockCollection.UpdateOne(ctx, {name}, {$set: {expiredAt}})
MongoRenew(i, fault) ==
    IF fault = "none"
    THEN Outcome(i, {[e EXCEPT !.left = ExpiredAt] : e \in store},
                 "nil", "", "renewed", FALSE)
    ELSE Outcome(i, store, "db", "", "failed", FALSE)

(***************************************************************************)
(* The Locker interface: each method's body, by adapter.                   *)
(***************************************************************************)
LockFaults ==
    CASE adapter = "gorm" -> {"none", "db", "commit"}
      [] adapter = "etcd" -> {"none", "grant", "put"}
      [] adapter = "consul" -> {"none", "session", "put"}
      [] OTHER -> {"none", "db"}

UnlockFaults ==
    CASE adapter = "etcd" -> {"none", "delete", "revoke"}
      [] OTHER -> {"none", "db"}

RenewFaults == IF adapter = "zookeeper" THEN {"none"} ELSE {"none", "db"}

LockBody(i, fault) ==
    CASE adapter = "gorm" -> GORMLockTx(i, fault)
      [] adapter = "redis" -> RedisLockSetNX(i, fault)
      [] adapter = "memcached" -> MemcachedAdd(i, fault)
      [] adapter = "etcd" -> EtcdLock(i, fault)
      [] adapter = "consul" -> ConsulLock(i, fault)
      [] adapter = "zookeeper" -> ZookeeperCreate(i, fault)
      [] adapter = "mongo" -> MongoLock(i, fault)

UnlockBody(i, fault) ==
    CASE adapter = "gorm" -> GORMDelete(i, fault)
      [] adapter = "redis" -> RedisDel(i, fault)
      [] adapter = "memcached" -> MemcachedDelete(i, fault)
      [] adapter = "etcd" -> EtcdUnlock(i, fault)
      [] adapter = "consul" -> ConsulDelete(i, fault)
      [] adapter = "zookeeper" -> ZookeeperDelete(i, fault)
      [] adapter = "mongo" -> MongoDelete(i, fault)

RenewBody(i, fault) ==
    CASE adapter = "gorm" -> GORMUpdate(i, fault)
      [] adapter = "redis" -> RedisExpire(i, fault)
      [] adapter = "memcached" -> MemcachedReplace(i, fault)
      [] adapter = "etcd" -> EtcdKeepAliveOnce(i, fault)
      [] adapter = "consul" -> ConsulSessionRenew(i, fault)
      [] adapter = "zookeeper" -> ZookeeperRenew(i, fault)
      [] adapter = "mongo" -> MongoRenew(i, fault)

(***************************************************************************)
(* The context.Context a method is called with: "live", or "done" when it  *)
(* is cancelled or past its deadline.  RedisLocker, EtcdLocker and         *)
(* MongoLocker hand ctx to their client, whose call then fails with the    *)
(* context's error before anything is sent; GORMLocker (no WithContext),   *)
(* MemcachedLocker, ConsulLocker (nil options) and ZookeeperLocker make    *)
(* their backend calls without it.                                         *)
(***************************************************************************)
Contexts == {"live", "done"}

PassesCtx == adapter \in {"redis", "etcd", "mongo"}

\* The first backend call of the method fails with ctx.Err().
CtxErr(i) == Outcome(i, store, "db", "", "failed", FALSE)

LockCtx(i, ctx, fault) ==
    IF ctx = "done" /\ PassesCtx THEN CtxErr(i) ELSE LockBody(i, fault)

LockGetCtx(i, ctx, fault) ==
    IF ctx = "done" /\ PassesCtx THEN CtxErr(i) ELSE RedisLockGet(i, fault)

UnlockCtx(i, ctx, fault) ==
    IF ctx = "done" /\ PassesCtx THEN CtxErr(i) ELSE UnlockBody(i, fault)

RenewCtx(i, ctx, fault) ==
    IF ctx = "done" /\ PassesCtx THEN CtxErr(i) ELSE RenewBody(i, fault)

(***************************************************************************)
(* Steps of the caller.                                                    *)
(***************************************************************************)
\* Renewal goroutines started so far, over all instances.
Started == LET n[S \in SUBSET Owners] ==
                   IF S = {} THEN 0
                   ELSE LET i == CHOOSE x \in S : TRUE IN Len(tasks[i]) + n[S \ {i}]
           IN  n[Owners]

\* Every lease or session ever granted keeps its number, so their count is capped.
MaxGrants == MaxLocks

\* A variant of CanCall for methods that do not take l.mu.
CanCallUnlocked(i) == ~crashed[i] /\ pc[i] = "idle"

\* The owner of instance i can call a method and get past l.mu.Lock().
CanCall(i) ==
    /\ ~crashed[i]
    /\ pc[i] = "idle"
    /\ ~mu[i]

\* The caps on what a Lock call may start.
CanLock ==
    /\ Started < MaxLocks
    /\ adapter \in {"etcd", "consul"} => Len(grants) < MaxGrants

\* The ticker's period, l.lockTimeout / 2, in whole seconds.
RenewPeriod == LockTimeout \div 2

\* "l.renewTicker = time.NewTicker(l.lockTimeout / 2); go l.renewLock(ctx)":
\* the new ticker's number, and the goroutines with the new one at its loop head.
NewTicker(i) == Len(tasks[i]) + 1
Spawned(i) == Append(tasks[i], [pc |-> "loop", tk |-> NoTicker])

\* The method returns outcome r: its writes have taken effect, the deferred
\* l.mu.Unlock() runs.  rt and st are l.renewTicker and the stopped tickers
\* as the body left them before any "go l.renewLock".
Return(i, op, r, rt, st) ==
    /\ store' = r.store
    /\ grants' = r.grants
    /\ leaseID' = [leaseID EXCEPT ![i] = r.lease]
    /\ ownerID' = [ownerID EXCEPT ![i] = r.owner]
    /\ renewTicker' = [renewTicker EXCEPT ![i] = IF r.spawn THEN NewTicker(i) ELSE rt]
    /\ tasks' = [tasks EXCEPT ![i] = IF r.spawn THEN Spawned(i) ELSE @]
    /\ stopped' = [stopped EXCEPT ![i] = st]
    /\ mu' = [mu EXCEPT ![i] = FALSE]
    /\ pc' = [pc EXCEPT ![i] = "idle"]
    /\ ev' = Event(i, op, r.err, r.holder, r.path)
    /\ UNCHANGED <<elsewhere, adapter, crashed>>

\* Lock, from l.mu.Lock() to its return (RedisLocker: to the result of SetNX,
\* the mutex staying locked when the Get is still to come).
Lock(i) ==
    /\ CanCall(i)
    /\ CanLock
    /\ \E ctx \in Contexts, fault \in LockFaults :
         LET r == LockCtx(i, ctx, fault)
         IN  IF r.path = "exists"
             THEN /\ pc' = [pc EXCEPT ![i] = "LockGet"]
                  /\ mu' = [mu EXCEPT ![i] = TRUE]
                  /\ ev' = NoEvent
                  /\ UNCHANGED <<elsewhere, adapter, store, grants, ownerID, leaseID,
                                 renewTicker, stopped, tasks, crashed>>
             ELSE Return(i, "Lock", r, renewTicker[i], stopped[i])

\* A variant of LockGet that reads again, holding the mutex, for as long as
\* another owner's key is there.
LockGetWait(i) ==
    /\ ~crashed[i]
    /\ pc[i] = "LockGet"
    /\ \E ctx \in Contexts, fault \in LockFaults :
         LET r == LockGetCtx(i, ctx, fault)
         IN  IF r.err = "held"
             THEN /\ ev' = Event(i, "retry", r.err, r.holder, r.path)
                  /\ UNCHANGED <<elsewhere, adapter, store, grants, ownerID, leaseID, mu, pc,
                                 renewTicker, stopped, tasks, crashed>>
             ELSE Return(i, "Lock", r, renewTicker[i], stopped[i])

\* RedisLocker.Lock from l.client.Get to its return.
LockGet(i) ==
    /\ ~crashed[i]
    /\ pc[i] = "LockGet"
    /\ \E ctx \in Contexts, fault \in LockFaults :
         Return(i, "Lock", LockGetCtx(i, ctx, fault), renewTicker[i], stopped[i])

\* A variant of StoppedByUnlock without the test for nil.
StoppedUnguarded(i) == stopped[i] \cup {renewTicker[i]}

\* Unlock: "if l.renewTicker != nil { l.renewTicker.Stop(); l.renewTicker = nil }",
\* then the backend delete.
StoppedByUnlock(i) ==
    IF renewTicker[i] # NoTicker THEN stopped[i] \cup {renewTicker[i]} ELSE stopped[i]

Unlock(i) ==
    /\ CanCall(i)
    /\ \E ctx \in Contexts, fault \in UnlockFaults :
         Return(i, "Unlock", UnlockCtx(i, ctx, fault), NoTicker, StoppedByUnlock(i))

\* Renew called by the owner of the instance.
Renew(i) ==
    /\ CanCall(i)
    /\ \E ctx \in Contexts, fault \in RenewFaults :
         Return(i, "Renew", RenewCtx(i, ctx, fault), renewTicker[i], stopped[i])

(***************************************************************************)
(* Steps of a renewLock goroutine (task k of instance i).  stopChan is     *)
(* made by the constructor and never closed or sent to, so the select's    *)
(* first case is never ready.                                              *)
(***************************************************************************)
TaskAt(i, k, where) ==
    /\ ~crashed[i]
    /\ k \in DOMAIN tasks[i]
    /\ tasks[i][k].pc = where

\* The process dies (a panic in a goroutine, or a kill): its memory is gone.
Dies(i) ==
    /\ crashed' = [crashed EXCEPT ![i] = TRUE]
    /\ tasks' = [tasks EXCEPT ![i] = <<>>]
    /\ renewTicker' = [renewTicker EXCEPT ![i] = NoTicker]
    /\ stopped' = [stopped EXCEPT ![i] = {}]
    /\ mu' = [mu EXCEPT ![i] = FALSE]
    /\ pc' = [pc EXCEPT ![i] = "idle"]
    /\ ev' = Event(i, "exit", "", "", "")
    /\ UNCHANGED <<elsewhere, adapter, store, grants, ownerID, leaseID>>

\* The select evaluates l.renewTicker.C (outside the mutex): a nil ticker is
\* a nil dereference; otherwise the goroutine waits on that ticker's channel.
renewLockSelect(i, k) ==
    /\ TaskAt(i, k, "loop")
    /\ IF renewTicker[i] = NoTicker
       THEN Dies(i)
       ELSE /\ tasks' = [tasks EXCEPT ![i][k] = [pc |-> "select", tk |-> renewTicker[i]]]
            /\ ev' = NoEvent
            /\ UNCHANGED <<elsewhere, adapter, store, grants, ownerID, leaseID, mu, pc,
                           renewTicker, stopped, crashed>>

\* case <-l.renewTicker.C: a tick of a ticker that was not stopped.
renewLockTick(i, k) ==
    /\ TaskAt(i, k, "select")
    /\ tasks[i][k].tk \notin stopped[i]
    /\ tasks' = [tasks EXCEPT ![i][k] = [pc |-> "wait", tk |-> NoTicker]]
    /\ ev' = NoEvent
    /\ UNCHANGED <<elsewhere, adapter, store, grants, ownerID, leaseID, mu, pc,
                   renewTicker, stopped, crashed>>

\* l.Renew(ctx) called by the goroutine: l.mu.Lock()
renewLockEnter(i, k) ==
    /\ TaskAt(i, k, "wait")
    /\ ~mu[i]
    /\ mu' = [mu EXCEPT ![i] = TRUE]
    /\ tasks' = [tasks EXCEPT ![i][k].pc = "cs"]
    /\ ev' = NoEvent
    /\ UNCHANGED <<elsewhere, adapter, store, grants, ownerID, leaseID, pc,
                   renewTicker, stopped, crashed>>

\* A variant of renewLockRenew that gives up on an error: it stops the
\* ticker and clears l.renewTicker before going round the loop.
renewLockRenewGiveUp(i, k) ==
    /\ TaskAt(i, k, "cs")
    /\ \E ctx \in Contexts, fault \in RenewFaults :
         LET r == RenewCtx(i, ctx, fault)
         IN  /\ store' = r.store
             /\ grants' = r.grants
             /\ ev' = Event(i, "renewLock", r.err, r.holder, r.path)
             /\ renewTicker' = IF r.err = "nil" THEN renewTicker
                                ELSE [renewTicker EXCEPT ![i] = NoTicker]
             /\ stopped' = IF r.err = "nil" THEN stopped
                            ELSE [stopped EXCEPT ![i] = StoppedByUnlock(i)]
    /\ mu' = [mu EXCEPT ![i] = FALSE]
    /\ tasks' = [tasks EXCEPT ![i][k].pc = "loop"]
    /\ UNCHANGED <<elsewhere, adapter, ownerID, leaseID, pc, crashed>>

\* The body of that Renew; its error is logged and the loop goes on.
renewLockRenew(i, k) ==
    /\ TaskAt(i, k, "cs")
    /\ \E ctx \in Contexts, fault \in RenewFaults :
         LET r == RenewCtx(i, ctx, fault)
         IN  /\ store' = r.store
             /\ grants' = r.grants
             /\ ev' = Event(i, "renewLock", r.err, r.holder, r.path)
    /\ mu' = [mu EXCEPT ![i] = FALSE]
    /\ tasks' = [tasks EXCEPT ![i][k].pc = "loop"]
    /\ UNCHANGED <<elsewhere, adapter, ownerID, leaseID, pc, renewTicker, stopped, crashed>>

(***************************************************************************)
(* The environment: processes die, time passes and the backend expires     *)
(* what has run out.                                                       *)
(***************************************************************************)
Crash(i) ==
    /\ ~crashed[i]
    /\ Dies(i)

\* One second later: a lease or session with one second left is gone.
GrantsAged == [id \in DOMAIN grants |-> IF grants[id] = 0 THEN 0 ELSE grants[id] - 1]

\* What the backend holds one second later.  Redis and Memcached drop a key
\* whose time to live is over, etcd deletes the keys of a lease that ran out;
\* rows and documents stay (a stale one is equally stale at any later time);
\* Consul keys bound to no session and Zookeeper nodes made with flags 0 stay.
StoreAged ==
    CASE adapter \in {"redis", "memcached"} ->
             {[e EXCEPT !.left = @ - 1] : e \in {x \in store : x.left > 1}}
      [] adapter \in {"gorm", "mongo"} ->
             {[e EXCEPT !.left = IF @ < 0 THEN @ ELSE @ - 1] : e \in store}
      [] adapter = "etcd" -> {e \in store : GrantsAged[e.lease] # 0}
      [] OTHER -> store

Advance ==
    /\ store' = StoreAged
    /\ grants' = GrantsAged
    /\ ev' = NoEvent
    /\ UNCHANGED <<elsewhere, adapter, ownerID, leaseID, mu, pc, renewTicker, stopped, tasks, crashed>>

(***************************************************************************)
(* GORMLocker.Lock with the statements of its transaction taken one by     *)
(* one, as the database runs them when the transactions of two instances   *)
(* overlap.  A transaction sees committed rows only; a statement that      *)
(* writes the row waits while another transaction holds an uncommitted     *)
(* write of it.  pc says where Lock is: "First" after a duplicate-entry    *)
(* error, "Save" after reading an expired row, "Commit" when the body has  *)
(* returned nil.  A transaction is over within the second it began in.     *)
(***************************************************************************)
\* The zero value of "var lock Lock".
NoRow == [owner |-> "", left |-> 0]

\* A row left by an instance whose process is gone, its expiry passed.
Lapsed == [owner |-> "C", left |-> 0 - 1]

\* Lock calls of GORMLocker that are inside their transaction.
InTx == {j \in Owners : pc[j] \in {"First", "Save", "Commit"}}

\* Another transaction holds a write that is not yet committed.
RowLocked(i) == \E j \in Owners \ {i} : pc[j] = "Commit"

\* The statement fails with an error that is no duplicate entry (or tx.First
\* finds no row): the body returns it, the transaction is rolled back.
TxFails(i) ==
    Return(i, "Lock", Outcome(i, store, "db", "", "failed", FALSE),
           renewTicker[i], stopped[i])

\* A step inside the transaction that goes on to its next statement.
TxGoes(i, to, read) ==
    /\ pc' = [pc EXCEPT ![i] = to]
    /\ mu' = [mu EXCEPT ![i] = TRUE]
    /\ lock' = [lock EXCEPT ![i] = read]
    /\ ev' = NoEvent
    /\ UNCHANGED <<adapter, store, grants, ownerID, leaseID, stopped, crashed,
                   opts, o, config, once, clock, tokenString, ret, whr,
                   lockTimeout, ttl>>

\* "l.renewTicker = time.NewTicker(l.lockTimeout / 2); go l.renewLock(ctx)"
\* and the body's "return nil": the commit is still to come.
TxBodyDone(i, read) ==
    /\ TxGoes(i, "Commit", read)
    /\ renewTicker' = [renewTicker EXCEPT ![i] = NewTicker(i)]
    /\ tasks' = [tasks EXCEPT ![i] = Spawned(i)]

\* Lock from l.mu.Lock() to the result of tx.Create.
TxCreate(i) ==
    /\ adapter = "gorm"
    /\ CanCall(i)
    /\ Started + Cardinality(InTx) < MaxLocks
    /\ ~RowLocked(i)
    /\ \E fault \in {"none", "db"} :
         IF fault = "db" THEN TxFails(i)
         ELSE IF store = {} THEN TxBodyDone(i, NoRow)
         ELSE TxGoes(i, "First", NoRow) /\ UNCHANGED <<renewTicker, tasks>>

\* tx.First(&lock, "name = ?", l.lockName) and the test of lock.ExpiredAt.
TxFirst(i) ==
    /\ ~crashed[i]
    /\ pc[i] = "First"
    /\ \E fault \in {"none", "db"} :
         IF fault = "db" \/ store = {} THEN TxFails(i)
         ELSE IF ~Before(TheEntry.left)
         THEN Return(i, "Lock", Outcome(i, store, "held", TheEntry.owner, "held", FALSE),
                     renewTicker[i], stopped[i])
         ELSE TxGoes(i, "Save", TheEntry) /\ UNCHANGED <<renewTicker, tasks>>

\* tx.Save(&lock) with lock.OwnerID and lock.ExpiredAt assigned, to the end of
\* the body.
TxSave(i) ==
    /\ ~crashed[i]
    /\ pc[i] = "Save"
    /\ ~RowLocked(i)
    /\ \E fault \in {"none", "db"} :
         IF fault = "db" THEN TxFails(i) ELSE TxBodyDone(i, lock[i])

\* The commit: the transaction's write replaces what is committed, or the
\* commit fails and nothing is written; Lock returns.
TxCommit(i) ==
    /\ ~crashed[i]
    /\ pc[i] = "Commit"
    /\ \E fault \in {"none", "commit"} :
         Return(i, "Lock",
                Outcome(i, IF fault = "none"
                           THEN {[owner |-> ownerID[i], left |-> ExpiredAt]}
                           ELSE store,
                        IF fault = "none" THEN "nil" ELSE "db", "",
                        IF lock[i] = NoRow THEN "created" ELSE "stolen", FALSE),
                renewTicker[i], stopped[i])

\* A second passes between transactions.
AdvanceIdle ==
    /\ InTx = {}
    /\ Advance

(***************************************************************************)
(* Package where (where.go): the pagination fields of Options.  An Option  *)
(* given to NewWhere acts on the value as the method of the same effect    *)
(* does.                                                                   *)
(***************************************************************************)
defaultLimit == 0 - 1

\* Arguments given to the options and methods.
MaxArg == 4
Args == (0 - MaxArg)..MaxArg

\* NewWhere()
NewWhere == [Offset |-> 0, Limit |-> defaultLimit]

\* Everything but the value under construction.
notWhere ==
    <<lockers, opts, o, config, once, clock, tokenString, ret, lock, lockTimeout, ttl>>

WithOffset(offset) ==
    /\ whr' = [whr EXCEPT !.Offset = IF offset < 0 THEN 0 ELSE offset]
    /\ UNCHANGED notWhere

WithLimit(limit) ==
    /\ whr' = [whr EXCEPT !.Limit = IF limit <= 0 THEN defaultLimit ELSE limit]
    /\ UNCHANGED notWhere

WithPage(page, pageSize) ==
    /\ LET p == IF page = 0 THEN 1 ELSE page
           size == IF pageSize = 0 THEN defaultLimit ELSE pageSize
       IN  whr' = [Offset |-> (p - 1) * size, Limit |-> size]
    /\ UNCHANGED notWhere

O(offset) ==
    /\ whr' = [whr EXCEPT !.Offset = IF offset < 0 THEN 0 ELSE offset]
    /\ UNCHANGED notWhere

L(limit) ==
    /\ whr' = [whr EXCEPT !.Limit = IF limit <= 0 THEN defaultLimit ELSE limit]
    /\ UNCHANGED notWhere

P(page, pageSize) ==
    /\ LET p == IF page < 1 THEN 1 ELSE page
           size == IF pageSize <= 0 THEN defaultLimit ELSE pageSize
       IN  whr' = [Offset |-> (p - 1) * size, Limit |-> size]
    /\ UNCHANGED notWhere

(***************************************************************************)
(* The TTL of an etcd lease and the Expiration of a Memcached item, as     *)
(* computed from l.lockTimeout.                                            *)
(***************************************************************************)
\* Timeouts given to WithLockTimeout, up to this many tenths of a second.
MaxDuration == 30

\* Nothing computed yet.
NoTTL == [etcd |-> 0 - 1, memcached |-> 0 - 1]

\* EtcdLocker.Lock: l.lease.Grant(ctx, int64(l.lockTimeout.Seconds()))
Grant ==
    /\ ttl' = [ttl EXCEPT !.etcd = WholeSeconds(lockTimeout)]
    /\ UNCHANGED <<lockers, opts, o, config, once, clock, tokenString, ret, lock,
                   whr, lockTimeout>>

\* MemcachedLocker.Lock and Renew: Expiration: int32(l.lockTimeout.Seconds())
Item ==
    /\ ttl' = [ttl EXCEPT !.memcached = WholeSeconds(lockTimeout)]
    /\ UNCHANGED <<lockers, opts, o, config, once, clock, tokenString, ret, lock,
                   whr, lockTimeout>>

(***************************************************************************)
(* Options (options.go).  An Option is a function on *Options; the four    *)
(* constructors each return a closure that assigns one field.  A closure   *)
(* is written as the field it assigns and the value it captured.           *)
(***************************************************************************)
DefaultLockName == "onex-distributed-lock"
\* 10 * time.Second
DefaultLockTimeout == 10
\* os.Hostname()
Hostname == "host"
\* empty.NewLogger()
EmptyLogger == "empty"

\* Values given to the option constructors.
LockNames == {"job", "cron"}
Timeouts == {5, 30}
Loggers == {"std", "zap"}

NewOptions ==
    [lockName |-> DefaultLockName, lockTimeout |-> DefaultLockTimeout,
     ownerID |-> Hostname, logger |-> EmptyLogger]

WithLockName(name) == [field |-> "lockName", str |-> name, num |-> 0]
WithLockTimeout(timeout) == [field |-> "lockTimeout", str |-> "", num |-> timeout]
WithOwnerID(id) == [field |-> "ownerID", str |-> id, num |-> 0]
WithLogger(logger) == [field |-> "logger", str |-> logger, num |-> 0]

Options ==
    {WithLockName(n) : n \in LockNames} \cup {WithLockTimeout(t) : t \in Timeouts}
        \cup {WithOwnerID(id) : id \in Owners} \cup {WithLogger(l) : l \in Loggers}

\* A variant of Call in which an option gives way to an earlier one: a field
\* that no longer holds its default is left as it is.
CallIfUnset(opt, op) ==
    IF op[opt.field] # NewOptions[opt.field] THEN op
    ELSE IF opt.field = "lockTimeout" THEN [op EXCEPT !.lockTimeout = opt.num]
    ELSE [op EXCEPT ![opt.field] = opt.str]

\* opt(o): the closure's assignment.
Call(opt, op) ==
    CASE opt.field = "lockName" -> [op EXCEPT !.lockName = opt.str]
      [] opt.field = "lockTimeout" -> [op EXCEPT !.lockTimeout = opt.num]
      [] opt.field = "ownerID" -> [op EXCEPT !.ownerID = opt.str]
      [] opt.field = "logger" -> [op EXCEPT !.logger = opt.str]

\* for _, opt := range opts { opt(o) }
RECURSIVE Range(_, _)
Range(op, rest) ==
    IF rest = <<>> THEN op ELSE Range(Call(Head(rest), op), Tail(rest))

ApplyOptions(given) == Range(NewOptions, given)

\* A constructor calls ApplyOptions(opts...).
Apply ==
    /\ o = <<>>
    /\ o' = <<ApplyOptions(opts)>>
    /\ UNCHANGED <<lockers, lock, whr, lockTimeout, ttl, opts, config, once, clock, tokenString, ret>>

(***************************************************************************)
(* Package token (token.go).  A token string is written as what it         *)
(* decodes to: header algorithm, claims and signature; the signature of    *)
(* an HMAC method is determined by the key and what was signed.  Claim     *)
(* values are JSON strings or numbers.  Time is in hours.                  *)
(***************************************************************************)
DefaultKey == "Rtg8BPKNEf2mB4mgvKONGPZZQSaJWNLijxR42qRgq0iBb5"
\* 2 * time.Hour
DefaultExpiration == 2
DefaultConfig ==
    [key |-> DefaultKey, identityKey |-> "identityKey", expiration |-> DefaultExpiration]

\* Arguments given to Init, Sign and Parse.
Keys == {"", "newKey"}
IdentityKeys == {"", "newIdentityKey", "exp"}
Expirations == {0, 3, -1}
Identities == {"testUser", "admin"}

String(s) == [kind |-> "string", str |-> s, num |-> 0]
Number(n) == [kind |-> "number", str |-> "", num |-> n]

HMAC(key, alg, claims) == [key |-> key, alg |-> alg, claims |-> claims]
HMACMethods == {"HS256", "HS384", "HS512"}

\* A string that is no three-segment token ("", "invalid.token.string").
NoClaims == [k \in {"exp"} |-> Number(0)]
InvalidToken ==
    [wellFormed |-> FALSE, alg |-> "", claims |-> NoClaims, sig |-> HMAC("", "", NoClaims)]

\* token.SignedString(key)
SignedString(alg, claims, key) ==
    [wellFormed |-> TRUE, alg |-> alg, claims |-> claims, sig |-> HMAC(key, alg, claims)]

NoRet ==
    [op |-> "", key |-> "", identityKey |-> "", expiration |-> 0,
     identity |-> "", err |-> "", token |-> InvalidToken]

\* A variant of OnceDo that runs the function on every call.
EveryDo(c) == c

\* once.Do(func() { ... }): the function's writes count on the first call only.
OnceDo(c) == IF once THEN config ELSE c

\* The function Init hands to once.Do.
InitBody(key, identityKey, expiration) ==
    [key |-> IF key # "" THEN key ELSE config.key,
     identityKey |-> IF identityKey # "" THEN identityKey ELSE config.identityKey,
     expiration |-> IF expiration # 0 THEN expiration ELSE config.expiration]

TokenInit(key, identityKey, expiration) ==
    /\ config' = OnceDo(InitBody(key, identityKey, expiration))
    /\ once' = TRUE
    /\ ret' = [NoRet EXCEPT !.op = "Init", !.key = key, !.identityKey = identityKey,
                            !.expiration = expiration]
    /\ UNCHANGED <<lockers, lock, whr, lockTimeout, ttl, opts, o, clock, tokenString>>

\* jwt.MapClaims{config.identityKey: identityKey, "nbf": ..., "iat": ..., "exp": ...}:
\* the entries are stored in the order written, a later one replacing an
\* earlier one under the same key.
SignClaims(identityKey) ==
    [k \in {config.identityKey, "nbf", "iat", "exp"} |->
        CASE k = "exp" -> Number(clock + config.expiration)
          [] k = "iat" -> Number(clock)
          [] k = "nbf" -> Number(clock)
          [] OTHER -> String(identityKey)]

SignBody(identityKey) ==
    IF config.key = ""
    THEN [token |-> InvalidToken, err |-> "ErrInvalidKey"]
    ELSE [token |-> SignedString("HS256", SignClaims(identityKey), config.key),
          err |-> "nil"]

\* MapClaims.Valid (jwt v4): "exp", "iat" and "nbf" are each checked when
\* present; a value that is no number fails, the number 0 counts as absent;
\* the token is expired unless now is before "exp".
ClaimsValid(claims) ==
    /\ "exp" \in DOMAIN claims =>
          /\ claims["exp"].kind = "number"
          /\ claims["exp"].num = 0 \/ clock < claims["exp"].num
    /\ \A k \in {"iat", "nbf"} \cap DOMAIN claims :
          /\ claims[k].kind = "number"
          /\ claims[k].num = 0 \/ clock >= claims[k].num

\* jwt.Parse with Parse's key function: the error, or "nil".
JwtParse(t, key) ==
    CASE ~t.wellFormed -> "ErrTokenMalformed"
      [] t.alg \notin HMACMethods -> "ErrTokenUnverifiable"
      [] ~ClaimsValid(t.claims) -> "ErrTokenInvalidClaims"
      [] t.sig # HMAC(key, t.alg, t.claims) -> "ErrSignatureInvalid"
      [] OTHER -> "nil"

ParseBody(t, key) ==
    LET err == JwtParse(t, key)
        identityKey ==
            IF config.identityKey \in DOMAIN t.claims
                  /\ t.claims[config.identityKey].kind = "string"
            THEN t.claims[config.identityKey].str
            ELSE ""
    IN  IF err # "nil" THEN [identity |-> "", err |-> err]
        ELSE IF identityKey = "" THEN [identity |-> "", err |-> "ErrSignatureInvalid"]
        ELSE [identity |-> identityKey, err |-> "nil"]

\* Token strings that Sign did not make with the key: no token at all, and
\* tokens naming identity under a method that needs no key or signed with a
\* key of the sender's own.
NotSigned(identityKey, key) ==
    LET claims == [k \in {config.identityKey, "exp"} |->
                      IF k = "exp" THEN Number(clock + 1) ELSE String(identityKey)]
    IN  {InvalidToken,
         [wellFormed |-> TRUE, alg |-> "none", claims |-> claims,
          sig |-> HMAC("", "none", claims)]}
            \cup {SignedString("HS256", claims, k) : k \in {"newKey", "guess"} \ {key}}

Sign(identityKey) ==
    LET r == SignBody(identityKey)
    IN  /\ tokenString' = r.token
        /\ ret' = [NoRet EXCEPT !.op = "Sign", !.identity = identityKey,
                                !.err = r.err, !.token = r.token]
        /\ UNCHANGED <<lockers, lock, whr, lockTimeout, ttl, opts, o, config, once, clock>>

Parse(t, key) ==
    LET r == ParseBody(t, key)
    IN  /\ ret' = [NoRet EXCEPT !.op = "Parse", !.key = key, !.identity = r.identity,
                                !.err = r.err, !.token = t]
        /\ UNCHANGED <<lockers, lock, whr, lockTimeout, ttl, opts, o, config, once, clock, tokenString>>

\* An hour passes.
Tick ==
    /\ clock < StartClock + MaxClock
    /\ clock' = clock + 1
    /\ UNCHANGED <<lockers, lock, whr, lockTimeout, ttl, opts, o, config, once, tokenString, ret>>

(***************************************************************************)
(* The specification.                                                      *)
(***************************************************************************)
\* The state after the constructors (NewGORMLocker, NewRedisLocker, ...): one
\* instance per owner, of one of the adapter kinds, and an empty backend.
Instances(kinds) ==
    /\ adapter \in kinds
    /\ grants = <<>>
    /\ ownerID = [i \in Owners |-> i]
    /\ leaseID = [i \in Owners |-> NoLease]
    /\ mu = [i \in Owners |-> FALSE]
    /\ pc = [i \in Owners |-> "idle"]
    /\ renewTicker = [i \in Owners |-> NoTicker]
    /\ stopped = [i \in Owners |-> {}]
    /\ tasks = [i \in Owners |-> <<>>]
    /\ crashed = [i \in Owners |-> FALSE]
    /\ ev = NoEvent
    /\ lock = [i \in Owners |-> NoRow]

Lockers(kinds) == Instances(kinds) /\ store = {}

\* No Options value of package where is being built, and the timeout is the
\* lockers' one.
NoWhere == whr = NewWhere
NoTimeout == lockTimeout = LockTimeout * Second /\ ttl = NoTTL

\* No ApplyOptions call is under way.
NoApply == opts = <<>> /\ o = <<>>

\* Package token as the program starts: var config, var once.
TokenStart ==
    /\ config = DefaultConfig
    /\ once = FALSE
    /\ clock = StartClock
    /\ tokenString = InvalidToken
    /\ ret = NoRet

Start(kinds) == Lockers(kinds) /\ NoApply /\ TokenStart /\ NoWhere /\ NoTimeout

Init == Start(Adapters)

\* The steps every adapter has.
Step ==
    \/ \E i \in Owners : Lock(i)
    \/ \E i \in Owners : Unlock(i)
    \/ \E i \in Owners : Renew(i)
    \/ \E i \in Owners, k \in 1..MaxLocks : renewLockSelect(i, k)
    \/ \E i \in Owners, k \in 1..MaxLocks : renewLockTick(i, k)
    \/ \E i \in Owners, k \in 1..MaxLocks : renewLockEnter(i, k)
    \/ \E i \in Owners, k \in 1..MaxLocks : renewLockRenew(i, k)
    \/ \E i \in Owners : Crash(i)
    \/ Advance

Next ==
    \/ Step
    \/ \E i \in Owners : LockGet(i)

\* All adapters.
Spec == Init /\ [][Next]_vars

\* GORMLocker alone.
SpecGORM == Start({"gorm"}) /\ [][Step]_vars

\* The compare-and-swap adapters: RedisLocker and MemcachedLocker.
SpecCAS == Start({"redis", "memcached"}) /\ [][Next]_vars

\* The Go scheduler runs every goroutine that can run, and a ticker that
\* was not stopped delivers its ticks.
Scheduling ==
    \A i \in Owners, k \in 1..MaxLocks :
        /\ WF_vars(renewLockSelect(i, k))
        /\ WF_vars(renewLockTick(i, k))
        /\ WF_vars(renewLockEnter(i, k))
        /\ WF_vars(renewLockRenew(i, k))

\* GORMLocker and EtcdLocker with their goroutines scheduled fairly.
SpecScheduled == Start({"gorm", "etcd"}) /\ [][Step]_vars /\ Scheduling

\* ZookeeperLocker with its goroutines scheduled fairly and time passing.
SpecZookeeper ==
    Start({"zookeeper"}) /\ [][Step]_vars /\ Scheduling /\ WF_vars(Advance)

\* GORMLocker, ZookeeperLocker and MongoLocker.
SpecRows == Start({"gorm", "zookeeper", "mongo"}) /\ [][Step]_vars

\* The adapters whose record carries an expiry that Renew rewrites.
SpecLease == Start({"gorm", "redis"}) /\ [][Next]_vars

\* Sequences over S of at most n elements.
UpTo(S, n) == UNION {[1..m -> S] : m \in 0..n}

\* One call of ApplyOptions, with any options.
InitOptions ==
    /\ Lockers({"gorm"})
    /\ TokenStart
    /\ NoWhere
    /\ NoTimeout
    /\ opts \in UpTo(Options, MaxOpts)
    /\ o = <<>>

SpecOptions == InitOptions /\ [][Apply]_vars

\* Package token: its functions called in any order, time passing.
NextToken ==
    \/ \E key \in Keys, identityKey \in IdentityKeys, expiration \in Expirations :
          TokenInit(key, identityKey, expiration)
    \/ \E identityKey \in Identities : Sign(identityKey)
    \/ \E key \in {config.key, "guess"} :
          \E t \in {tokenString} \cup NotSigned("admin", key) : Parse(t, key)
    \/ Tick

SpecToken == Start({"gorm"}) /\ [][NextToken]_vars

\* GORMLocker with Lock's transaction taken statement by statement; the
\* table is empty at first or holds the row of an instance that is gone.
InitTx ==
    /\ Instances({"gorm"})
    /\ store \in {{}, {Lapsed}}
    /\ NoApply /\ TokenStart /\ NoWhere /\ NoTimeout

NextTx ==
    \/ \E i \in Owners : TxCreate(i)
    \/ \E i \in Owners : TxFirst(i)
    \/ \E i \in Owners : TxSave(i)
    \/ \E i \in Owners : TxCommit(i)
    \/ \E i \in Owners : Unlock(i)
    \/ \E i \in Owners : Renew(i)
    \/ \E i \in Owners, k \in 1..MaxLocks : renewLockSelect(i, k)
    \/ \E i \in Owners, k \in 1..MaxLocks : renewLockTick(i, k)
    \/ \E i \in Owners, k \in 1..MaxLocks : renewLockEnter(i, k)
    \/ \E i \in Owners, k \in 1..MaxLocks : renewLockRenew(i, k)
    \/ \E i \in Owners : Crash(i)
    \/ AdvanceIdle

SpecTx == InitTx /\ [][NextTx]_vars

\* Package where: NewWhere(), then options and methods in any order.
NextWhere ==
    \/ \E offset \in Args : WithOffset(offset)
    \/ \E limit \in Args : WithLimit(limit)
    \/ \E page \in Args, pageSize \in Args : WithPage(page, pageSize)
    \/ \E offset \in Args : O(offset)
    \/ \E limit \in Args : L(limit)
    \/ \E page \in Args, pageSize \in Args : P(page, pageSize)

SpecWhere == Start({"gorm"}) /\ [][NextWhere]_vars

\* A locker of either kind computes its TTL from any timeout from a tenth of
\* a second on.
InitTTL ==
    /\ Lockers({"etcd"})
    /\ NoApply /\ TokenStart /\ NoWhere
    /\ lockTimeout \in 1..MaxDuration
    /\ ttl = NoTTL

SpecTTL == InitTTL /\ [][Grant \/ Item]_vars

(***************************************************************************)
(* Properties.  A step in which a method of instance i returns is one that *)
(* leaves ev naming i and the method; the unprimed variables are the state *)
(* the method's body ran in.                                               *)
(***************************************************************************)
Returns(i, op) == ev'.who = i /\ ev'.op = op

\* Instance i's Lock runs a backend call in this step (RedisLocker.Lock has two).
LockStep(i) == Returns(i, "Lock") \/ (pc[i] = "idle" /\ pc'[i] = "LockGet")

\* The backend holds an entry for the lock name that names an owner other than i's.
HeldByOther(i) == store # {} /\ TheEntry.owner # ownerID[i]

C2_CASLockConflict ==
    [][\A i \in Owners :
          (adapter \in {"redis", "memcached"} /\ LockStep(i)) =>
              /\ HeldByOther(i) =>
                    /\ ~(Returns(i, "Lock") /\ ev'.err = "nil")
                    /\ tasks' = tasks /\ renewTicker' = renewTicker
                    /\ store' = store
              /\ store' # store =>
                    /\ store = {}
                    /\ store' = {[owner |-> ownerID[i], left |-> LockTimeout]}]_vars

\* A Lock has just been refused while the key holds another owner's identifier.
C2_Witness ==
    /\ adapter \in {"redis", "memcached"}
    /\ ev.op = "Lock" /\ ev.err = "held"
    /\ store # {} /\ TheEntry.owner # ev.who
    /\ tasks[ev.who] = <<>>

\* C3: EtcdLocker.Lock writes the key only if it does not already exist under
\* a live lease: with another owner's key present under a live lease, Lock
\* fails and the stored owner is unchanged.
C3_EtcdLockConditional ==
    [][\A i \in Owners :
          (adapter = "etcd" /\ Returns(i, "Lock") /\ HeldByOther(i)
               /\ LeaseAlive(TheEntry.lease))
            => (ev'.err # "nil" /\ store' = store)]_vars

\* C4: ConsulLocker.Lock fails, and leaves the stored value unchanged, whenever
\* the key already exists for another owner whose session is alive (here: no
\* session created so far has run out).
C4_ConsulLockConditional ==
    [][\A i \in Owners :
          (adapter = "consul" /\ Returns(i, "Lock") /\ HeldByOther(i)
               /\ \A id \in DOMAIN grants : grants[id] # 0)
            => (ev'.err # "nil" /\ store' = store)]_vars

\* C5: with ZookeeperLocker, once one instance's Lock has succeeded and its
\* node still exists, the Lock of an instance with another ownerID fails: two
\* owners never hold the lock name at once.
C5_ZookeeperMutualExclusion ==
    [][\A i \in Owners :
          (adapter = "zookeeper" /\ Returns(i, "Lock")
               /\ \E n \in store : n.owner # ownerID[i])
            => (ev'.err # "nil" /\ store' = store)]_vars

\* C6: MongoLocker.Lock on a name whose document belongs to another owner and
\* is unexpired fails and leaves the document's owner and expiry unchanged; the
\* document is overwritten only when its expiry has passed.
C6_MongoLockConflict ==
    [][\A i \in Owners :
          (adapter = "mongo" /\ Returns(i, "Lock") /\ HeldByOther(i)
               /\ TheEntry.left >= 0)
            => (ev'.err # "nil" /\ store' = store)]_vars

\* C7: stale-lock reclamation in GORMLocker, the backend answering: with
\* another owner's row in place, a Lock run when the row's expiry is not yet
\* past (now <= t0 + T) fails with a conflict naming that owner and changes
\* nothing; a Lock run after it (now > t0 + T) succeeds and leaves the row
\* with the caller's ownerID and expiry now + T.
C7_GORMStaleReclamation ==
    [][\A i \in Owners :
          (adapter = "gorm" /\ Returns(i, "Lock") /\ ev'.err # "db" /\ HeldByOther(i)) =>
              IF TheEntry.left >= 0
              THEN ev'.err = "held" /\ ev'.holder = TheEntry.owner /\ store' = store
              ELSE ev'.err = "nil"
                   /\ store' = {[owner |-> ownerID[i], left |-> LockTimeout]}]_vars

\* A has died without Unlock and B's first successful Lock took over A's stale row.
C7_Witness ==
    /\ adapter = "gorm"
    /\ crashed["A"]
    /\ ev.who = "B" /\ ev.op = "Lock" /\ ev.err = "nil" /\ ev.path = "stolen"
    /\ Len(tasks["B"]) = 1
    /\ store = {[owner |-> "B", left |-> LockTimeout]}

\* C8: once Unlock has run on an instance (l.renewTicker is nil from then
\* until the next successful Lock), its renewal goroutine performs no Renew
\* backend call.
C8_NoRenewAfterUnlock ==
    [][\A i \in Owners :
          (adapter \in {"gorm", "redis"} /\ Returns(i, "renewLock"))
            => renewTicker[i] # NoTicker]_vars

\* C9: Renew, called by the owner or by the goroutine, returns success only
\* when the entry exists and its stored owner is the instance's ownerID.
C9_RenewFailsWhenNotHeld ==
    [][\A i \in Owners :
          (adapter \in {"gorm", "redis"}
               /\ (Returns(i, "Renew") \/ Returns(i, "renewLock"))
               /\ ev'.err = "nil")
            => (store # {} /\ TheEntry.owner = ownerID[i])]_vars

\* C10: Unlock removes the backend entry only when it is the caller's: an
\* Unlock run while the entry names another owner leaves it in place.
C10_UnlockOnlyOwnEntry ==
    [][\A i \in Owners :
          (adapter \in {"gorm", "redis"} /\ Returns(i, "Unlock") /\ HeldByOther(i))
            => store' = store]_vars

\* The backend holds an unexpired entry for the lock name that names i's owner.
HeldBy(i) == store # {} /\ TheEntry.owner = ownerID[i] /\ TheEntry.left > 0

C12_LockSuccessStartsScheduler ==
    [][\A i \in Owners :
          (Returns(i, "Lock") /\ ev'.err = "nil") =>
              /\ renewTicker'[i] # NoTicker
              /\ renewTicker'[i] \notin stopped'[i]
              /\ tasks'[i] # <<>>]_vars

\* C13: after an Unlock of instance i has returned success, its renewLock
\* goroutines come to an end: eventually none of them exists, blocked or
\* running.
C13_RenewalTaskTerminates ==
    \A i \in Owners :
        (ev.who = i /\ ev.op = "Unlock" /\ ev.err = "nil") ~> (tasks[i] = <<>>)

\* The methods of instance i that are between l.mu.Lock() and their return
\* across steps: goroutine Renews, and a RedisLocker.Lock between its calls.
InRenew(i) == {k \in DOMAIN tasks[i] : tasks[i][k].pc = "cs"}
InSection(i) == Cardinality(InRenew(i)) + (IF pc[i] = "LockGet" THEN 1 ELSE 0)

\* C14: within one instance, Lock, Unlock, explicit Renew and the
\* goroutine's Renew exclude one another: at most one of them is in its
\* backend-call section at a time (l.mu is locked exactly then), a method
\* called by the owner runs its backend call only when no other is inside,
\* and a goroutine's Renew and a RedisLocker.Lock between its two calls
\* complete without another method's backend call in between.
C14_MethodsSerialized ==
    [][\A i \in Owners :
          /\ InSection(i) <= 1
          /\ mu[i] <=> InSection(i) = 1
          /\ (pc[i] = "idle" /\ (Returns(i, "Lock") \/ Returns(i, "Unlock")
                                   \/ Returns(i, "Renew") \/ pc'[i] = "LockGet"))
                => InSection(i) = 0
          /\ Returns(i, "renewLock") => (pc[i] = "idle" /\ Cardinality(InRenew(i)) = 1)
          /\ (pc[i] = "LockGet" /\ Returns(i, "Lock")) => InRenew(i) = {}
          /\ (InSection(i) = 1 /\ ~crashed'[i] /\ (store' # store \/ grants' # grants))
                => (Returns(i, "renewLock") \/ Returns(i, "Lock")
                      \/ \E j \in Owners \ {i} : ev'.who = j
                      \/ ev' = NoEvent)]_vars

\* A goroutine of an instance is inside Renew while the owner's call waits.
C14_Witness ==
    \E i \in Owners :
        /\ InRenew(i) # {}
        /\ mu[i] /\ pc[i] = "idle" /\ ~crashed[i]
        /\ Len(tasks[i]) = 2

\* C15: an instance never has more than one renewLock goroutine, and every
\* ticker it created and no longer keeps in l.renewTicker has been stopped
\* (stated for EtcdLocker, where only a successful Lock starts a goroutine).
C15_OneRenewalTask ==
    \A i \in Owners :
        adapter = "etcd" =>
        /\ Len(tasks[i]) <= 1
        /\ \A t \in 1..Len(tasks[i]) : t # renewTicker[i] => t \in stopped[i]

\* The backend holds exactly one entry for the lock name and it is i's.
SoleHolder(i) == store # {} /\ \A e \in store : e.owner = ownerID[i]

\* C16: in every adapter, whenever instance i is the sole holder of the
\* entry and its owner can call Unlock, an Unlock against a reachable backend
\* (no call fails) returns nil, starts nothing, leaves no entry for the lock
\* name, and stops the ticker l.renewTicker held.
C16_ReleaseUncontended ==
    \A i \in Owners :
        (SoleHolder(i) /\ CanCall(i)) =>
            LET r == UnlockBody(i, "none")
            IN  /\ r.err = "nil"
                /\ r.store = {}
                /\ ~r.spawn
                /\ renewTicker[i] # NoTicker => renewTicker[i] \in StoppedByUnlock(i)

\* An Unlock has just released the entry its caller held and stopped its ticker.
C16_Witness ==
    /\ ev.op = "Unlock" /\ ev.err = "nil" /\ ev.path = "deleted"
    /\ store = {}
    /\ renewTicker[ev.who] = NoTicker
    /\ stopped[ev.who] # {}

\* C17: hand-over in GORMLocker and RedisLocker.  An Unlock that returns
\* nil leaves no record, whatever time the record had left; a Lock that runs
\* with no record and gets its answers from the backend succeeds at once and
\* leaves the record naming its caller with the full timeout; and while
\* another owner's unexpired record is there, the Lock's answer is the
\* conflict naming that owner.
C17_HandOver ==
    [][\A i \in Owners :
          adapter \in {"gorm", "redis"} =>
              /\ (Returns(i, "Unlock") /\ ev'.err = "nil") => store' = {}
              /\ (Returns(i, "Lock") /\ store = {} /\ pc[i] = "idle" /\ ev'.err # "db") =>
                    /\ ev'.err = "nil"
                    /\ store' = {[owner |-> ownerID[i], left |-> LockTimeout]}
                    /\ renewTicker'[i] # NoTicker
              /\ (Returns(i, "Lock") /\ HeldByOther(i) /\ TheEntry.left >= 0
                     /\ ev'.err # "db") =>
                    /\ ev'.err = "held" /\ ev'.holder = TheEntry.owner
                    /\ store' = store]_vars

\* B has just acquired the name that A released by Unlock.
C17_Witness ==
    /\ adapter \in {"gorm", "redis"}
    /\ ev.who = "B" /\ ev.op = "Lock" /\ ev.err = "nil" /\ ev.path = "created"
    /\ store = {[owner |-> "B", left |-> LockTimeout]}
    /\ ~crashed["A"] /\ renewTicker["A"] = NoTicker /\ stopped["A"] # {}

\* The key exists and its stored owner is i's ownerID.
OwnKey(i) == store # {} /\ TheEntry.owner = ownerID[i]

\* C18: re-entrant acquisition in RedisLocker.  A Lock whose calls find the
\* key holding the caller's own ownerID writes nothing (the stored owner
\* stays), goes from the refused SetNX on to the Get, and returns success
\* there, not a conflict, whenever the Get is answered.
C18_RedisReentrantLock ==
    [][\A i \in Owners :
          (adapter = "redis" /\ LockStep(i) /\ OwnKey(i)) =>
              /\ store' = store
              /\ (pc[i] = "idle" /\ Returns(i, "Lock")) => ev'.err = "db"
              /\ (pc[i] = "LockGet" /\ ev'.err # "db") =>
                    (ev'.err = "nil" /\ ev'.path = "reentrant")]_vars

\* A Lock by the owner already stored under the key has just returned success.
C18_Witness ==
    /\ adapter = "redis"
    /\ ev.op = "Lock" /\ ev.err = "nil" /\ ev.path = "reentrant"
    /\ store # {} /\ TheEntry.owner = ownerID[ev.who] /\ TheEntry.left > 0

\* C19: re-entrant acquisition in MemcachedLocker.  A Lock by the owner whose
\* ownerID is stored under the existing key is not reported as a conflict:
\* unless the backend call fails, it returns success.
C19_MemcachedReentrantLock ==
    [][\A i \in Owners :
          (adapter = "memcached" /\ Returns(i, "Lock") /\ OwnKey(i) /\ ev'.err # "db")
            => ev'.err = "nil"]_vars

\* C20: first acquisition in MongoLocker.  A Lock that runs with no document
\* for the lock name and whose UpdateOne is carried out leaves the document
\* {ownerID, expiredAt = now + timeout}, returns success and starts the
\* renewal ticker and goroutine.
C20_MongoFirstLock ==
    [][\A i \in Owners :
          (adapter = "mongo" /\ Returns(i, "Lock") /\ store = {} /\ ev'.err # "db") =>
              /\ store' = {[owner |-> ownerID[i], left |-> LockTimeout]}
              /\ ev'.err = "nil"
              /\ renewTicker'[i] # NoTicker
              /\ Len(tasks'[i]) = Len(tasks[i]) + 1]_vars

\* C21: crash release in ZookeeperLocker.  When the process of the instance
\* that created a node has died without Unlock, the node eventually ceases
\* to exist.
C21_ZookeeperCrashRelease ==
    \A i \in Owners :
        (adapter = "zookeeper" /\ crashed[i] /\ LockNode(i) \in store)
            ~> (LockNode(i) \notin store)

\* C22: ConsulLocker.Renew renews the session Lock created.  After a Lock of
\* instance i has succeeded, a Renew of i (explicit or by its goroutine) that
\* the backend answers, run while a session has begun to age, returns
\* success and extends the time to live of a session.
C22_ConsulRenewExtendsSession ==
    [][\A i \in Owners :
          (adapter = "consul" /\ (Returns(i, "Renew") \/ Returns(i, "renewLock"))
               /\ ev'.err # "db" /\ tasks[i] # <<>>
               /\ \E id \in DOMAIN grants : grants[id] \in 1..(LockTimeout - 1)) =>
              /\ ev'.err = "nil"
              /\ \E id \in DOMAIN grants : grants'[id] > grants[id]]_vars

\* C23: a failed renewal by the goroutine changes nothing in the instance.
\* The goroutine is still there and back at the head of its loop, where the
\* next tick leads to Renew again; every other goroutine is where it was;
\* l.renewTicker is the same ticker and no ticker was stopped; the fields
\* of the instance and the caller's position are unchanged (no error
\* reaches a caller); the mutex is released.
C23_FailedRenewalFrame ==
    [][\A i \in Owners :
          (Returns(i, "renewLock") /\ ev'.err # "nil") =>
              /\ DOMAIN tasks'[i] = DOMAIN tasks[i]
              /\ \A k \in DOMAIN tasks[i] :
                    tasks'[i][k] = IF tasks[i][k].pc = "cs"
                                   THEN [pc |-> "loop", tk |-> NoTicker]
                                   ELSE tasks[i][k]
              /\ renewTicker' = renewTicker /\ stopped' = stopped
              /\ ownerID' = ownerID /\ leaseID' = leaseID
              /\ pc' = pc /\ crashed' = crashed
              /\ ~mu'[i]
              /\ \A j \in Owners \ {i} : tasks'[j] = tasks[j] /\ mu'[j] = mu[j]]_vars

\* A goroutine's Renew has just failed while the instance's ticker is running.
C23_Witness ==
    /\ ev.op = "renewLock" /\ ev.err # "nil"
    /\ renewTicker[ev.who] # NoTicker
    /\ renewTicker[ev.who] \notin stopped[ev.who]
    /\ \E k \in DOMAIN tasks[ev.who] : tasks[ev.who][k].pc = "loop"

\* C24: Unlock is idempotent at the backend.  An Unlock of instance i that
\* follows i's successful Unlock with no step in between creates and alters
\* no backend entry and leaves the backend (entries, leases) and the
\* instance (ticker, stopped tickers, goroutines, fields, mutex) exactly as
\* the first Unlock left them.
C24_UnlockIdempotent ==
    [][\A i \in Owners :
          (ev.who = i /\ ev.op = "Unlock" /\ ev.err = "nil" /\ Returns(i, "Unlock")) =>
              /\ store' = store /\ grants' = grants
              /\ renewTicker' = renewTicker /\ stopped' = stopped /\ tasks' = tasks
              /\ ownerID' = ownerID /\ leaseID' = leaseID
              /\ mu' = mu /\ pc' = pc]_vars

\* A second Unlock has just run on a ZookeeperLocker whose first Unlock had
\* removed its node and cleared l.ownerID.
C24_Witness ==
    /\ adapter = "zookeeper"
    /\ ev.op = "Unlock" /\ ev.err # "nil"
    /\ ownerID[ev.who] = ""
    /\ renewTicker[ev.who] = NoTicker /\ stopped[ev.who] # {}
    /\ \A n \in store : n.owner # ev.who

\* C25: every backend call of Lock, Unlock and Renew is bounded by the
\* context.  Whenever the owner of an instance can call a method, the method
\* called with a context that is already done, the backend itself being
\* healthy, returns an error and changes no entry, lease or session.
C25_DoneContextNoMutation ==
    \A i \in Owners :
        CanCall(i) =>
            \A r \in {LockCtx(i, "done", "none"), UnlockCtx(i, "done", "none"),
                       RenewCtx(i, "done", "none")} :
                r.err # "nil" /\ r.store = store /\ r.grants = grants

C27_OwnerIDImmutable ==
    [][\A i \in Owners :
          /\ ownerID'[i] = ownerID[i]
          /\ (Returns(i, "Lock") /\ ev'.err = "nil") => \A e \in store' \ store : e.owner = i]_vars

\* The last option of the call that assigns field f, as a set: empty when
\* the call has none.
LastFor(f) ==
    {n \in 1..Len(opts) :
        opts[n].field = f /\ \A m \in (n + 1)..Len(opts) : opts[m].field # f}

\* C28: ApplyOptions with no options returns the defaults (lock name
\* "onex-distributed-lock", timeout 10 seconds, ownerID the host name, the
\* no-op logger); otherwise every field holds the value of the last option
\* given for that field and, when no option was given for it, its default:
\* options act in argument order, each on its own field only, and of two
\* options for one field the later wins.
C28_ApplyOptions ==
    o # <<>> =>
        /\ opts = <<>> =>
              o[1] = [lockName |-> "onex-distributed-lock", lockTimeout |-> 10,
                      ownerID |-> Hostname, logger |-> EmptyLogger]
        /\ \A f \in {"lockName", "ownerID", "logger"} :
              /\ LastFor(f) = {} => o[1][f] = NewOptions[f]
              /\ \A n \in LastFor(f) : o[1][f] = opts[n].str
        /\ LastFor("lockTimeout") = {} => o[1].lockTimeout = 10
        /\ \A n \in LastFor("lockTimeout") : o[1].lockTimeout = opts[n].num

\* ApplyOptions has returned from a call that gave one option twice, with
\* two values, and another option between them.
C28_Witness ==
    /\ o # <<>>
    /\ Len(opts) = 3
    /\ opts[1].field = opts[3].field
    /\ opts[1] # opts[3]
    /\ opts[2].field # opts[1].field

\* C29: token.Init takes effect at most once.  Until the first call the
\* configuration is the default one; the first call replaces each field
\* whose argument is non-empty (non-zero) by the argument and leaves the
\* default in each other field; every later call, and every other step,
\* leaves key, identityKey and expiration as they are.
C29_InitOnce ==
    [][/\ ~once => config = DefaultConfig
       /\ IF ~once /\ once'
          THEN /\ ret'.op = "Init"
               /\ config'.key = IF ret'.key # "" THEN ret'.key ELSE DefaultKey
               /\ config'.identityKey =
                     IF ret'.identityKey # "" THEN ret'.identityKey ELSE "identityKey"
               /\ config'.expiration =
                     IF ret'.expiration # 0 THEN ret'.expiration ELSE 2
          ELSE config' = config
       /\ once => once']_vars

\* Init has returned from a call that was not the first and whose three
\* arguments, none empty or zero, all differ from what is configured.
C29_Witness ==
    /\ once
    /\ ret.op = "Init"
    /\ ret.key # "" /\ ret.key # config.key
    /\ ret.identityKey # "" /\ ret.identityKey # config.identityKey
    /\ ret.expiration # 0 /\ ret.expiration # config.expiration

\* C30: the token round trip.  At any time, for every non-empty identity,
\* Sign returns a token without error and Parse of that token with the
\* configured key returns the identity and no error; and Parse of a token
\* string that Sign did not make with the key returns an error and the
\* empty identity.
C30_TokenRoundTrip ==
    /\ \A identity \in Identities :
          LET signed == SignBody(identity)
          IN  /\ signed.err = "nil"
              /\ ParseBody(signed.token, config.key) =
                    [identity |-> identity, err |-> "nil"]
    /\ \A identity \in Identities : \A t \in NotSigned(identity, config.key) :
          LET parsed == ParseBody(t, config.key)
          IN  parsed.err # "nil" /\ parsed.identity = ""

\* C31: of two GORMLocker.Lock calls by different instances whose
\* transactions overlap on an expired row, at most one returns success, and
\* the row then names that instance.  A Lock that read the expired row and
\* returns success leaves the row naming its instance, and does not do so
\* when the Lock of another instance that read the same expired row has
\* committed since and holds the row unexpired.
C31_ConcurrentReclaim ==
    [][\A j \in Owners :
          (adapter = "gorm" /\ pc[j] = "Commit" /\ lock[j] # NoRow
              /\ Returns(j, "Lock") /\ ev'.err = "nil") =>
             /\ store' = {[owner |-> ownerID[j], left |-> ExpiredAt]}
             /\ \A i \in Owners \ {j} :
                   ~(/\ store # {}
                     /\ TheEntry.owner = ownerID[i]
                     /\ lock[i] = lock[j]
                     /\ lock[j].owner # ownerID[i]
                     /\ ~Before(TheEntry.left))]_vars

\* C32: a failed Lock has no effect.  Whenever Lock returns an error, the
\* backend entry for the lock name is as it was before the call and the
\* instance has no ticker and no renewal goroutine that it did not have
\* before.
C32_FailedLockNoEffect ==
    [][\A i \in Owners :
          (Returns(i, "Lock") /\ ev'.err # "nil") =>
              /\ store' = store
              /\ renewTicker'[i] = renewTicker[i]
              /\ tasks'[i] = tasks[i]]_vars

\* C33: the renewal goroutine never reads a nil ticker.  No goroutine of a
\* running instance stands at the head of its loop, about to evaluate
\* l.renewTicker.C in the select, while l.renewTicker is nil.
C33_NoNilTicker ==
    \A i \in Owners : \A k \in DOMAIN tasks[i] :
        ~(TaskAt(i, k, "loop") /\ renewTicker[i] = NoTicker)

\* C34: Renew never changes who owns the entry.  In every adapter, after a
\* Renew (called by the owner of the instance or by its goroutine) the
\* backend holds entries of the same owners as before: none is created,
\* none changes its owner.
C34_RenewKeepsOwner ==
    [][\A i \in Owners :
          (Returns(i, "Renew") \/ Returns(i, "renewLock")) =>
              {e.owner : e \in store'} = {e.owner : e \in store}]_vars

\* C35: the goroutine's renewals do not depend on the context given to Lock.
\* Whenever a goroutine of a running instance is inside Renew, the instance
\* holds the unexpired entry and Unlock has not cleared its ticker, that
\* Renew, run with a context that is done by now against a healthy backend,
\* returns nil and leaves the entry in place.
C35_RenewalOutlivesContext ==
    \A i \in Owners :
        (/\ ~crashed[i]
         /\ InRenew(i) # {}
         /\ HeldBy(i)
         /\ renewTicker[i] # NoTicker) =>
            LET r == RenewCtx(i, "done", "none")
            IN  r.err = "nil" /\ r.store # {}

\* C36: for every timeout above zero, the TTL given to an etcd lease and the
\* Expiration given to a Memcached item are positive and strictly greater
\* than the renewal interval, half the timeout (in whole seconds: twice the
\* TTL exceeds the timeout).
C36_TTLAboveInterval ==
    \A kind \in {"etcd", "memcached"} :
        ttl[kind] # NoTTL[kind] =>
            /\ ttl[kind] > 0
            /\ 2 * ttl[kind] * Second > lockTimeout

\* C37: pagination never has a negative offset.  After NewWhere and any
\* options and methods, Offset is at least 0 and Limit is positive or the
\* no-limit value -1.
C37_OffsetNotNegative ==
    /\ whr.Offset >= 0
    /\ whr.Limit > 0 \/ whr.Limit = 0 - 1

====
